---- MODULE Spec2Model ----
(***************************************************************************)
(* Model of the Mergington High School activities API (src/src/app.py).    *)
(*                                                                         *)
(* The store is the two tables of the service: activities (rows in        *)
(* insertion order, the row's id is its position) and participants (a bag  *)
(* of <<activity_id, email>> rows, so that a duplicated row is a state the *)
(* model can express).  Two specifications share the store:                *)
(*   SeqSpec  every request runs alone, one action per handler;            *)
(*   Spec     requests of several workers overlap; a handler is split at   *)
(*            each statement that reads or writes the store, and every     *)
(*            read sees the rows committed so far.                         *)
(***************************************************************************)
EXTENDS Naturals, Sequences, FiniteSets, Bags, TLC

VARIABLES up, activities, participants, hist, pc, req, resp, held, overtaken

store == <<activities, participants>>
conc == <<pc, req, resp, held, overtaken>>
vars == <<up, activities, participants, hist, pc, req, resp, held, overtaken>>

(* Capacities of the modelled catalogue (12 and 30 in the seed data). *)
ChessMax == 2
GymMax == 3

Emails == {"michael", "daniel", "emma"}
(* Path segments a request may carry; "Knitting" names no activity. *)
Names == {"Chess Club", "Gym Class", "Knitting"}
Procs == {"w1", "w2"}

SEED_ACTIVITIES ==
    << [name |-> "Chess Club", max_participants |-> ChessMax,
        participants |-> <<"michael">>],
       [name |-> "Gym Class", max_participants |-> GymMax,
        participants |-> <<"daniel">>] >>

----
(* Queries *)

Row(aid, email) == <<aid, email>>

FindActivity_unfiltered(name) == IF Len(activities) = 0 THEN 0 ELSE 1

(* db.query(Activity).filter(Activity.name == activity_name).first(); 0 is None *)
FindActivity(name) ==
    LET hits == {i \in DOMAIN activities : activities[i].name = name}
    IN  IF hits = {} THEN 0 ELSE CHOOSE i \in hits : \A j \in hits : i <= j

ExistingParticipant_any_activity(aid, email) ==
    \E x \in BagToSet(participants) : x[2] = email

(* db.query(Participant).filter(activity_id == .., email == ..).first() is not None *)
ExistingParticipant(aid, email) == CopiesIn(Row(aid, email), participants) > 0

RECURSIVE SumCopies(_, _)
SumCopies(B, S) ==
    IF S = {} THEN 0
    ELSE LET x == CHOOSE y \in S : TRUE
         IN  CopiesIn(x, B) + SumCopies(B, S \ {x})

(* db.query(Participant).filter(Participant.activity_id == activity.id).count() *)
CountParticipants(aid) ==
    SumCopies(participants, {Row(aid, e) : e \in Emails})

AtCapacity_strict(aid) ==
    /\ activities[aid].max_participants # 0
    /\ CountParticipants(aid) > activities[aid].max_participants

(* activity.max_participants and count >= activity.max_participants *)
AtCapacity(aid) ==
    /\ activities[aid].max_participants # 0
    /\ CountParticipants(aid) >= activities[aid].max_participants

(* The uniqueness constraint on (activity_id, email), evaluated at commit. *)
UniqueViolation(aid, email) == CopiesIn(Row(aid, email), participants) > 0

Insert(aid, email) == participants (+) SetToBag({Row(aid, email)})

Delete_all(aid, email) ==
    [x \in {y \in BagToSet(participants) : y[2] # email} |-> participants[x]]

(* db.delete(participant): removes the one loaded row *)
Delete(aid, email) == participants (-) SetToBag({Row(aid, email)})

----
(* Responses *)

R(status, detail) == [status |-> status, detail |-> detail]
NoResp == R(0, "")
NotFound == R(404, "Activity not found")
AlreadySignedUp == R(400, "Student is already signed up")
AtCapacityErr == R(400, "Activity is at capacity")
ConstraintErr == R(400, "Student is already signed up or constraint violation")
NotSignedUp == R(400, "Student is not signed up for this activity")
SignedUp == R(200, "Signed up")
Unregistered == R(200, "Unregistered")

NoReq == [op |-> "none", name |-> "", email |-> ""]

----
(* Startup *)

SeedActivities ==
    [i \in DOMAIN SEED_ACTIVITIES |->
        [name |-> SEED_ACTIVITIES[i].name,
         max_participants |-> SEED_ACTIVITIES[i].max_participants]]

(* The seeded Participant rows, for activities inserted after `off` rows. *)
SeedRows(off) ==
    {Row(off + i, e) : i \in DOMAIN SEED_ACTIVITIES, e \in Emails} \cap
    UNION {{Row(off + i, SEED_ACTIVITIES[i].participants[k]) :
                k \in DOMAIN SEED_ACTIVITIES[i].participants} :
           i \in DOMAIN SEED_ACTIVITIES}

startup_event_always ==
    /\ activities' = activities \o SeedActivities
    /\ participants' = participants (+) SetToBag(SeedRows(Len(activities)))

(* startup_event: seed the catalogue when the Activity table is empty *)
startup_event ==
    IF Len(activities) = 0
    THEN /\ activities' = SeedActivities
         /\ participants' = participants (+) SetToBag(SeedRows(0))
    ELSE UNCHANGED store

----
(* GET /activities over a store: name -> capacity and the participants'   *)
(* emails (the row order of a query without ORDER BY is the store's, so    *)
(* the emails are kept as a bag)                                           *)
Listing(acts, parts) ==
    [n \in {acts[i].name : i \in DOMAIN acts} |->
        LET last == CHOOSE i \in DOMAIN acts :
                        /\ acts[i].name = n
                        /\ \A j \in DOMAIN acts : acts[j].name = n => j <= i
        IN  [max_participants |-> acts[last].max_participants,
             participants |->
                 [e \in {f \in Emails : CopiesIn(Row(last, f), parts) > 0}
                     |-> CopiesIn(Row(last, e), parts)]]]

get_activities == Listing(activities, participants)

----
(* Requests that run alone: one action per handler.  hist keeps the last   *)
(* two requests with the store each of them found.                         *)

Rec(op, name, email, r) ==
    [op |-> op, name |-> name, email |-> email,
     status |-> r.status, detail |-> r.detail,
     acts |-> activities, parts |-> participants]

Push(r) == IF Len(hist) < 2 THEN Append(hist, r) ELSE <<hist[2], r>>

signup_checks_capacity_first(name, email) ==
    LET aid == FindActivity(name)
    IN  IF aid = 0 THEN NotFound
        ELSE IF AtCapacity(aid) THEN AtCapacityErr
        ELSE IF ExistingParticipant(aid, email) THEN AlreadySignedUp
        ELSE NoResp

signup_checks_idempotent(name, email) ==
    LET aid == FindActivity(name)
    IN  IF aid = 0 THEN NotFound
        ELSE IF ExistingParticipant(aid, email) THEN SignedUp
        ELSE IF AtCapacity(aid) THEN AtCapacityErr
        ELSE NoResp

(* The checks of signup_for_activity in their order; NoResp: all passed *)
signup_checks(name, email) ==
    LET aid == FindActivity(name)
    IN  IF aid = 0 THEN NotFound
        ELSE IF ExistingParticipant(aid, email) THEN AlreadySignedUp
        ELSE IF AtCapacity(aid) THEN AtCapacityErr
        ELSE NoResp

signup_for_activity(name, email) ==
    LET aid == FindActivity(name)
        r == signup_checks(name, email)
    IN  /\ up
        /\ IF r # NoResp
           THEN /\ participants' = participants
                /\ hist' = Push(Rec("signup", name, email, r))
           ELSE IF UniqueViolation(aid, email)
           THEN /\ participants' = participants
                /\ hist' = Push(Rec("signup", name, email, ConstraintErr))
           ELSE /\ participants' = Insert(aid, email)
                /\ hist' = Push(Rec("signup", name, email, SignedUp))
        /\ UNCHANGED <<up, activities, conc>>

unregister_from_activity(name, email) ==
    LET aid == FindActivity(name)
    IN  /\ up
        /\ IF aid = 0
           THEN /\ participants' = participants
                /\ hist' = Push(Rec("unregister", name, email, NotFound))
           ELSE IF ~ExistingParticipant(aid, email)
           THEN /\ participants' = participants
                /\ hist' = Push(Rec("unregister", name, email, NotSignedUp))
           ELSE /\ participants' = Delete(aid, email)
                /\ hist' = Push(Rec("unregister", name, email, Unregistered))
        /\ UNCHANGED <<up, activities, conc>>

list_activities ==
    /\ up
    /\ hist' = Push(Rec("list", "", "", R(200, "")))
    /\ UNCHANGED <<up, store, conc>>

SeqStartup ==
    /\ startup_event
    /\ up' = TRUE
    /\ hist' = Push(Rec("startup", "", "", R(200, "")))
    /\ UNCHANGED conc

SeqSignup == \E n \in Names, e \in Emails : signup_for_activity(n, e)
SeqUnregister == \E n \in Names, e \in Emails : unregister_from_activity(n, e)

SeqNext == SeqStartup \/ SeqSignup \/ SeqUnregister \/ list_activities

----
(* Overlapping requests: worker p serves one request at a time; pc[p] is   *)
(* the statement it will execute next.  resp[p] is the answer to req[p].   *)
(* held[p]: the Participant row loaded by unregister is still in the table *)
(* (primary keys are not reused).  overtaken[p]: the emails committed by   *)
(* other signups for p's activity since p passed its capacity check.       *)

Activity(p) == FindActivity(req[p].name)

Begin(p, op, name, email) ==
    /\ up
    /\ pc[p] = "idle"
    /\ req' = [req EXCEPT ![p] = [op |-> op, name |-> name, email |-> email]]

Finish(p, r) ==
    /\ pc' = [pc EXCEPT ![p] = "idle"]
    /\ resp' = [resp EXCEPT ![p] = r]

Goto(p, label) ==
    /\ pc' = [pc EXCEPT ![p] = label]
    /\ resp' = [resp EXCEPT ![p] = NoResp]

(* signup_for_activity: the request arrives and the activity is looked up *)
SignupFindActivity(p) ==
    \E name \in Names, email \in Emails :
        /\ Begin(p, "signup", name, email)
        /\ IF FindActivity(name) = 0
           THEN Finish(p, NotFound)
           ELSE Goto(p, "existing")
        /\ UNCHANGED <<up, store, hist, held, overtaken>>

SignupCheckExisting(p) ==
    /\ pc[p] = "existing"
    /\ IF ExistingParticipant(Activity(p), req[p].email)
       THEN Finish(p, AlreadySignedUp)
       ELSE Goto(p, "capacity")
    /\ UNCHANGED <<up, store, hist, req, held, overtaken>>

SignupCheckCapacity(p) ==
    /\ pc[p] = "capacity"
    /\ IF AtCapacity(Activity(p))
       THEN Finish(p, AtCapacityErr)
       ELSE Goto(p, "commit")
    /\ overtaken' = [overtaken EXCEPT ![p] = {}]
    /\ UNCHANGED <<up, store, hist, req, held>>

SignupCommit_unchecked(p) ==
    /\ pc[p] = "commit"
    /\ participants' = Insert(Activity(p), req[p].email)
    /\ Finish(p, SignedUp)
    /\ overtaken' =
          [q \in Procs |->
              IF q = p THEN {}
              ELSE IF pc[q] = "commit" /\ Activity(q) = Activity(p)
              THEN overtaken[q] \cup {req[p].email}
              ELSE overtaken[q]]
    /\ UNCHANGED <<up, activities, hist, req, held>>

(* db.add(participant); db.commit(), IntegrityError -> rollback and 400 *)
SignupCommit(p) ==
    /\ pc[p] = "commit"
    /\ IF UniqueViolation(Activity(p), req[p].email)
       THEN /\ participants' = participants
            /\ Finish(p, ConstraintErr)
            /\ overtaken' = [overtaken EXCEPT ![p] = {}]
       ELSE /\ participants' = Insert(Activity(p), req[p].email)
            /\ Finish(p, SignedUp)
            /\ overtaken' =
                  [q \in Procs |->
                      IF q = p THEN {}
                      ELSE IF pc[q] = "commit" /\ Activity(q) = Activity(p)
                      THEN overtaken[q] \cup {req[p].email}
                      ELSE overtaken[q]]
    /\ UNCHANGED <<up, activities, hist, req, held>>

UnregisterFindActivity(p) ==
    \E name \in Names, email \in Emails :
        /\ Begin(p, "unregister", name, email)
        /\ IF FindActivity(name) = 0
           THEN Finish(p, NotFound)
           ELSE Goto(p, "participant")
        /\ UNCHANGED <<up, store, hist, held, overtaken>>

UnregisterFindParticipant(p) ==
    /\ pc[p] = "participant"
    /\ IF ExistingParticipant(Activity(p), req[p].email)
       THEN /\ Goto(p, "delete")
            /\ held' = [held EXCEPT ![p] = TRUE]
       ELSE /\ Finish(p, NotSignedUp)
            /\ held' = held
    /\ UNCHANGED <<up, store, hist, req, overtaken>>

(* db.delete(participant); db.commit(): the DELETE names the loaded row's  *)
(* primary key; when another request has already deleted that row it       *)
(* matches no row, which is not an error.                                  *)
UnregisterCommit(p) ==
    /\ pc[p] = "delete"
    /\ IF held[p]
       THEN /\ participants' = Delete(Activity(p), req[p].email)
            /\ held' = [q \in Procs |->
                          IF pc[q] = "delete" /\ Activity(q) = Activity(p)
                             /\ req[q].email = req[p].email
                          THEN FALSE ELSE held[q]]
       ELSE /\ participants' = participants
            /\ held' = held
    /\ Finish(p, Unregistered)
    /\ UNCHANGED <<up, activities, hist, req, overtaken>>

(* The process (re)starts: no request is in flight *)
Startup ==
    /\ \A p \in Procs : pc[p] = "idle"
    /\ startup_event
    /\ up' = TRUE
    /\ UNCHANGED <<hist, conc>>

Init ==
    /\ up = FALSE
    /\ activities = <<>>
    /\ participants = EmptyBag
    /\ hist = <<>>
    /\ pc = [p \in Procs |-> "idle"]
    /\ req = [p \in Procs |-> NoReq]
    /\ resp = [p \in Procs |-> NoResp]
    /\ held = [p \in Procs |-> FALSE]
    /\ overtaken = [p \in Procs |-> {}]

Next ==
    \/ Startup
    \/ \E p \in Procs : SignupFindActivity(p)
    \/ \E p \in Procs : SignupCheckExisting(p)
    \/ \E p \in Procs : SignupCheckCapacity(p)
    \/ \E p \in Procs : SignupCommit(p)
    \/ \E p \in Procs : UnregisterFindActivity(p)
    \/ \E p \in Procs : UnregisterFindParticipant(p)
    \/ \E p \in Procs : UnregisterCommit(p)

Spec == Init /\ [][Next]_vars

SeqSpec == Init /\ [][SeqNext]_vars

----
(* Properties.  In SeqSpec, Last is the request served last and Prev the   *)
(* one before it; each records the store it found.                         *)

HasLast == Len(hist) >= 1
HasPrev == Len(hist) = 2
Last == hist[Len(hist)]
Prev == hist[1]

IdIn(acts, name) ==
    LET hits == {i \in DOMAIN acts : acts[i].name = name}
    IN  IF hits = {} THEN 0 ELSE CHOOSE i \in hits : \A j \in hits : i <= j

CountIn(parts, aid) == SumCopies(parts, {Row(aid, e) : e \in Emails})

RegisteredIn(r) == CopiesIn(Row(IdIn(r.acts, r.name), r.email), r.parts) > 0

StoreAsFoundBy(r) == activities = r.acts /\ participants = r.parts

(* C1: every activity with a nonzero max_participants has at most that     *)
(* many Participant rows, in every reachable state.                        *)
CapacityInvariant ==
    \A aid \in DOMAIN activities :
        activities[aid].max_participants # 0
            => CountParticipants(aid) <= activities[aid].max_participants

(* C2: the store holds at most one Participant row per (activity, email),  *)
(* and a signup whose commit finds the pair already inserted is answered   *)
(* 400 and leaves the table as it is.                                      *)
UniquenessUnderRace ==
    /\ [](\A x \in BagToSet(participants) : CopiesIn(x, participants) <= 1)
    /\ [][\A p \in Procs :
            (/\ pc[p] = "commit"
             /\ pc'[p] = "idle"
             /\ CopiesIn(Row(Activity(p), req[p].email), participants) > 0)
                => /\ resp'[p].status = 400
                   /\ participants' = participants]_vars

(* Two signups for one pair both passed the existence check; one was       *)
(* answered 200, the other 400 at commit, and there is one row.            *)
RacingSignupRejected ==
    \E p, q \in Procs :
        /\ p # q
        /\ pc[p] = "idle" /\ pc[q] = "idle"
        /\ req[p] = req[q]
        /\ resp[p] = ConstraintErr
        /\ resp[q] = SignedUp
        /\ CopiesIn(Row(Activity(p), req[p].email), participants) = 1

(* C3: a signup directly after a successful signup of the same (activity,  *)
(* email) pair is answered 400 and leaves the store as the first call left *)
(* it.                                                                     *)
DuplicateSignupRejected ==
    (/\ HasPrev
     /\ Prev.op = "signup" /\ Prev.status = 200
     /\ Last.op = "signup"
     /\ Last.name = Prev.name /\ Last.email = Prev.email)
        => /\ Last.status = 400
           /\ StoreAsFoundBy(Last)
           /\ CopiesIn(Row(IdIn(Last.acts, Last.name), Last.email),
                       participants) = 1

SignedUpTwice ==
    /\ HasPrev
    /\ Prev.op = "signup" /\ Prev.status = 200
    /\ Last.op = "signup"
    /\ Last.name = Prev.name /\ Last.email = Prev.email

(* C4: unregister of an email that has no row for an existing activity is  *)
(* answered 400 and leaves the store unchanged.                            *)
UnregisterNotRegistered ==
    (/\ HasLast
     /\ Last.op = "unregister"
     /\ IdIn(Last.acts, Last.name) # 0
     /\ ~RegisteredIn(Last))
        => /\ Last.status = 400
           /\ StoreAsFoundBy(Last)

UnregisteredElsewhereOnly ==
    /\ HasLast
    /\ Last.op = "unregister"
    /\ IdIn(Last.acts, Last.name) # 0
    /\ ~RegisteredIn(Last)
    /\ \E x \in BagToSet(Last.parts) : x[2] = Last.email

(* C5: signup or unregister on a name that matches no Activity row is      *)
(* answered 404 and leaves both tables unchanged.                          *)
UnknownActivity404 ==
    (/\ HasLast
     /\ Last.op \in {"signup", "unregister"}
     /\ IdIn(Last.acts, Last.name) = 0)
        => /\ Last.status = 404
           /\ StoreAsFoundBy(Last)

UnknownActivityBothOps ==
    /\ HasPrev
    /\ Prev.op = "signup" /\ Last.op = "unregister"
    /\ IdIn(Prev.acts, Prev.name) = 0 /\ IdIn(Last.acts, Last.name) = 0
    /\ \E x \in BagToSet(Last.parts) : x[2] = Last.email
    /\ \E e \in Emails : \A x \in BagToSet(Prev.parts) : x[2] # e

(* C6: a successful signup(A, e) directly followed by a successful         *)
(* unregister(A, e) gives a listing in which e is absent from A and A is   *)
(* listed as before the signup; every other activity is listed the same    *)
(* before, between and after.                                              *)
RoundTrip ==
    (/\ HasPrev
     /\ Prev.op = "signup" /\ Prev.status = 200
     /\ Last.op = "unregister" /\ Last.status = 200
     /\ Last.name = Prev.name /\ Last.email = Prev.email)
        => LET before == Listing(Prev.acts, Prev.parts)
               between == Listing(Last.acts, Last.parts)
               after == get_activities
           IN  /\ DOMAIN after = DOMAIN before
               /\ Last.email \notin DOMAIN after[Last.name].participants
               /\ Last.email \in DOMAIN between[Last.name].participants
               /\ after[Last.name] = before[Last.name]
               /\ \A m \in DOMAIN before :
                     m # Last.name => /\ between[m] = before[m]
                                      /\ after[m] = before[m]

RoundTripKeepsOtherActivity ==
    /\ HasPrev
    /\ Prev.op = "signup" /\ Prev.status = 200
    /\ Last.op = "unregister" /\ Last.status = 200
    /\ Last.name = Prev.name /\ Last.email = Prev.email
    /\ \E m \in DOMAIN get_activities :
          m # Last.name /\ Last.email \in DOMAIN get_activities[m].participants

(* C7: startup inserts the catalogue only into an empty Activity table; on *)
(* a store that holds activities it changes no row, so the Activity table  *)
(* is either empty or exactly the catalogue.                               *)
SeedIdempotent ==
    /\ activities = <<>> \/ activities = SeedActivities
    /\ (HasLast /\ Last.op = "startup")
          => IF Last.acts = <<>>
             THEN /\ activities = SeedActivities
                  /\ participants = Last.parts (+) SetToBag(SeedRows(0))
             ELSE StoreAsFoundBy(Last)

RestartAfterUnregister ==
    /\ HasLast
    /\ Last.op = "startup"
    /\ Last.acts # <<>>
    /\ \E x \in SeedRows(0) : CopiesIn(x, participants) = 0

(* C8: signup answers 404 for an unknown activity; else 400 "already       *)
(* signed up" for a registered pair, also when the activity is full; else  *)
(* 400 "at capacity" for a full activity.                                  *)
SignupCheckOrder ==
    (HasLast /\ Last.op = "signup")
        => LET aid == IdIn(Last.acts, Last.name)
           IN  IF aid = 0 THEN Last.status = 404
               ELSE IF RegisteredIn(Last)
               THEN Last.status = 400 /\ Last.detail = AlreadySignedUp.detail
               ELSE IF /\ Last.acts[aid].max_participants # 0
                       /\ CountIn(Last.parts, aid)
                              >= Last.acts[aid].max_participants
               THEN Last.status = 400 /\ Last.detail = AtCapacityErr.detail
               ELSE Last.status = 200

RegisteredAndFull ==
    /\ HasLast
    /\ Last.op = "signup"
    /\ IdIn(Last.acts, Last.name) # 0
    /\ RegisteredIn(Last)
    /\ CountIn(Last.parts, IdIn(Last.acts, Last.name))
          >= Last.acts[IdIn(Last.acts, Last.name)].max_participants
    /\ Last.detail = AlreadySignedUp.detail

(* C9: a signup commit takes an activity above max_participants only when, *)
(* between its count check and its commit, a signup of another email for   *)
(* the same activity committed: both passed the check before either        *)
(* committed.  Such a commit is reachable (CapacityExceededByRace).        *)
CapacityRace ==
    [][\A p \in Procs :
          (/\ pc[p] = "commit"
           /\ resp'[p] = SignedUp
           /\ pc'[p] = "idle"
           /\ activities[Activity(p)].max_participants # 0
           /\ CountIn(participants', Activity(p))
                  > activities[Activity(p)].max_participants)
              => /\ CountIn(participants, Activity(p))
                        >= activities[Activity(p)].max_participants
                 /\ \E e \in overtaken[p] :
                       /\ e # req[p].email
                       /\ CopiesIn(Row(Activity(p), e), participants) > 0]_vars

CapacityExceededByRace ==
    \E p, q \in Procs :
        /\ p # q
        /\ pc[p] = "idle" /\ pc[q] = "idle"
        /\ req[p].op = "signup" /\ req[q].op = "signup"
        /\ req[p].name = req[q].name
        /\ req[p].email # req[q].email
        /\ resp[p] = SignedUp /\ resp[q] = SignedUp
        /\ CountParticipants(Activity(p))
              = activities[Activity(p)].max_participants + 1
        /\ \A x \in BagToSet(participants) : CopiesIn(x, participants) = 1

(* C10: a request answered 200 made the transition of exactly its pair     *)
(* (signup: no row before, one after; unregister: one row before, none     *)
(* after), and a request answered with an error left the table unchanged.  *)
Completes(p) ==
    /\ pc'[p] = "idle"
    /\ pc[p] # "idle" \/ req'[p] # req[p] \/ resp'[p] # resp[p]

FailClosed ==
    [][\A p \in Procs :
          Completes(p)
              => LET x == Row(FindActivity(req'[p].name), req'[p].email)
                 IN  IF resp'[p].status = 200 /\ req'[p].op = "signup"
                     THEN /\ CopiesIn(x, participants) = 0
                          /\ participants' = participants (+) SetToBag({x})
                     ELSE IF resp'[p].status = 200 /\ req'[p].op = "unregister"
                     THEN /\ CopiesIn(x, participants) = 1
                          /\ participants' = participants (-) SetToBag({x})
                     ELSE participants' = participants]_vars

====
